---- MODULE Spec2Model ----
(***************************************************************************)
(* A model of the IPTV quick-analysis toolkit (src/iptv_quick_analysis.py):*)
(* the endpoint validator with its retry loop, the playlist and guide      *)
(* extractors, the reconciler, the auditor and the deduplicator, as they   *)
(* are run one after the other from the menu loop.                         *)
(*                                                                         *)
(* Text.  A Python string is a sequence of tokens (TLA+ strings); the      *)
(* empty string is the empty sequence.  `needle in text` is "needle is a   *)
(* contiguous run of tokens of text", so the inputs are cut into tokens in *)
(* such a way that no needle of the program straddles a token boundary.    *)
(*                                                                         *)
(* Files.  A persisted artifact is [st, body]: st is "ok" (body is the     *)
(* parsed JSON), "missing" or "corrupt" (json.load raises).  Python dicts  *)
(* are functions; a key that a dict may lack is a point that DOMAIN may    *)
(* lack.                                                                   *)
(*                                                                         *)
(* The specifications share the variables and the steps of the menu loop:  *)
(* validation (option 1), the two extractions (2, 3), reconciliation (4,   *)
(* 17), the HTML report (5), whose template raises once the channel store  *)
(* is loaded, the audit (7), deduplication (8), and the ways the loop      *)
(* ends: option 99, option 10 (launch_dashboard is defined after the call  *)
(* of menu()) and the end of standard input. The exports, filters and      *)
(* reports of options 6, 9 and 11 to 16 write none of the four files and   *)
(* are not steps. The specifications differ in the state a run starts from *)
(* and in what the network and the file system give it. Spec starts        *)
(* without stores; it draws every outcome of a HEAD request and of the two *)
(* writes of a pass, and a download serves one playlist or guide or fails. *)
(* FairSpec is Spec with the steps of a pass under weak fairness.          *)
(* PipelineSpec starts from stores that earlier runs left, the channel     *)
(* store being one that extract_m3u_metadata or the GUI's smart_match      *)
(* wrote; it draws every outcome of a download and of a write of a store,  *)
(* and a HEAD request is answered with status 200. CategorizeSpec applies  *)
(* categorize_error to failure descriptions. GuiSpec runs the slots of the *)
(* GUI (src/iptv_gui.py) on the same files.                                *)
(***************************************************************************)
EXTENDS Integers, Sequences, FiniteSets, TLC

VARIABLES
  pc,            \* where the process is: "menu", a step of validate_urls, "exited", "crashed"
  out,           \* what the operation under way, or the one finished last, reported
  urlFile,       \* playlist_epg_urls.json
  deadFile,      \* dead_links.json
  channelsFile,  \* channels_metadata.json
  epgFile,       \* epg_metadata.json
  data,          \* validate_urls: the dict loaded from the URL config
  timestamp,     \* validate_urls: datetime.now() taken once per pass
  summary,       \* validate_urls: the counters
  category,      \* validate_urls: 1 = playlist_urls, 2 = epg_urls, 3 = both done
  urlIdx,        \* validate_urls: index of the URL being processed in its list
  attempt,       \* validate_urls: the retry loop's counter
  success,       \* validate_urls: the success flag of the URL being processed
  loaded,        \* the dict as it was loaded at the start of the pass
  headLog,       \* per URL, the results requests.head gave during this pass
  sleeps,        \* the time.sleep calls of this pass, in order
  ops,           \* number of operations started so far
  nreq,          \* number of HEAD requests sent so far
  last           \* what the last operation read, called and produced

files  == <<urlFile, deadFile, channelsFile, epgFile>>
locals == <<data, timestamp, summary, category, urlIdx, attempt, success,
            loaded, headLog, sleeps>>
vars   == <<pc, out, urlFile, deadFile, channelsFile, epgFile, data, timestamp,
            summary, category, urlIdx, attempt, success, loaded, headLog,
            sleeps, ops, nreq, last>>

-----------------------------------------------------------------------------
(* Bounds of the model. *)

\* HEAD requests of one run whose outcome is open: the later ones time out,
\* and a validation pass starts only while one is left
MaxRequests == 3

\* operations started in one run: validation passes, operations of the
\* extraction pipeline chosen from the menu, slots of the GUI
MaxOps == 2

\* words of a failure description given to categorize_error
MaxWords == 3

-----------------------------------------------------------------------------
(* Dicts, text and files. *)

EmptyMap == [x \in {} |-> x]

Put(f, k, v) == [x \in (DOMAIN f) \cup {k} |-> IF x = k THEN v ELSE f[x]]

Get(f, k, default) == IF k \in DOMAIN f THEN f[k] ELSE default

\* needle in text
Contains(text, needle) ==
  \E i \in 0..(Len(text) - Len(needle)) :
    \A j \in 1..Len(needle) : text[i + j] = needle[j]

\* text.replace(key, mirror) for a one-token key
Replace(text, key, mirror) ==
  [i \in 1..Len(text) |-> IF text[i] = key[1] THEN mirror[1] ELSE text[i]]

\* str.lower(), token by token
LowerToken(t) ==
  CASE t = "Timeout"    -> "timeout"
    [] t = "TIMEOUT"    -> "timeout"
    [] t = "Connection" -> "connection"
    [] t = "DNS"        -> "dns"
    [] t = "Name"       -> "name"
    [] t = "Read"       -> "read"
    [] OTHER            -> t

Lower(text) == [i \in 1..Len(text) |-> LowerToken(text[i])]

File(content) == [st |-> "ok", body |-> content]
MissingFile   == [st |-> "missing", body |-> <<>>]
CorruptFile   == [st |-> "corrupt", body |-> <<>>]

\* with open(path, "w") as f: json.dump(content, f): the file holds the new
\* content ("ok"); or open() raises and the file is as before ("failed"); or
\* open() has emptied the file and json.dump or the closing flush raises, which
\* leaves a file, empty or cut off, that json.load cannot read ("truncated").
WriteHows == {"ok", "failed", "truncated"}

Written(old, content, how) ==
  CASE how = "ok"        -> File(content)
    [] how = "failed"    -> old
    [] how = "truncated" -> CorruptFile

\* Python's None and JSON's null: a text of one token that no input contains
None == <<"<None>">>

\* bool(x) of a str or None
Truthy(x) == x # None /\ x # <<>>

\* the elements of a list
Range(s) == {s[i] : i \in 1..Len(s)}

-----------------------------------------------------------------------------
(* SECTION 2 and 3 of the source: the mirror table and the helpers. *)

MIRROR_MAP ==
  << [key |-> <<"iptv-org.github.io">>, mirror |-> <<"raw.githubusercontent.com/iptv-org">>],
     [key |-> <<"epg.pw">>,             mirror |-> <<"epgshare01.online">>] >>

CategorizeConnectionFirst(e) ==
  LET msg == Lower(e) IN
  IF Contains(msg, <<"connection">>) THEN "ConnectionError"
  ELSE IF Contains(msg, <<"timeout">>) THEN "Timeout"
  ELSE IF Contains(msg, <<"dns">>) \/ Contains(msg, <<"name", "resolution">>) THEN "DNSFailure"
  ELSE "UnknownError"

categorize_error(e) ==
  LET msg == Lower(e) IN
  IF Contains(msg, <<"timeout">>) THEN "Timeout"
  ELSE IF Contains(msg, <<"dns">>) \/ Contains(msg, <<"name", "resolution">>) THEN "DNSFailure"
  ELSE IF Contains(msg, <<"connection">>) THEN "ConnectionError"
  ELSE "UnknownError"

RECURSIVE SuggestFrom(_, _, _)
SuggestFrom(i, url, d) ==
  IF i > Len(MIRROR_MAP) THEN d
  ELSE IF Contains(url, MIRROR_MAP[i].key)
       THEN SuggestFrom(i + 1, url,
              [d EXCEPT !.mirror_suggestions =
                 Put(@, url, Replace(url, MIRROR_MAP[i].key, MIRROR_MAP[i].mirror))])
       ELSE SuggestFrom(i + 1, url, d)

NoSuggestion(url, d) == d

suggest_mirror(url, d) == SuggestFrom(1, url, d)

-----------------------------------------------------------------------------
(* SECTION 4 of the source: validate_urls. *)

\* range(3), the retry budget of one URL
Retries == 3

\* requests' Response.ok: raise_for_status() does not raise, which it does
\* for the status codes from 400 to 599
ResponseOk(o) == ~(o.status_code >= 400 /\ o.status_code < 600)

IsOk(o) == o.kind = "response" /\ ResponseOk(o)

EmptySummary == [checked |-> 0, alive |-> 0, dead |-> 0, errors |-> EmptyMap]

EmptyData ==
  [playlist_urls |-> <<>>, epg_urls |-> <<>>, status_history |-> EmptyMap,
   last_status |-> EmptyMap, mirror_suggestions |-> EmptyMap]

\* data.get(category, []) for category in ["playlist_urls", "epg_urls"]
UrlsOf(d, c) ==
  IF c = 1 THEN d.playlist_urls ELSE IF c = 2 THEN d.epg_urls ELSE <<>>

CurrentUrl == UrlsOf(data, category)[urlIdx]

\* the dict appended to status_history after a response
StatusOf(o, ts) ==
  [timestamp |-> ts, status_code |-> o.status_code, ok |-> ResponseOk(o),
   response_time_ms |-> o.elapsed]

\* ... and the last_status entry written with it
LastOfResponse(o, ts) ==
  [alive |-> ResponseOk(o), last_checked |-> ts, response_time_ms |-> o.elapsed]

\* the dict appended to status_history after an exception
ErrorLogOf(o, ts) ==
  [timestamp |-> ts, error_type |-> categorize_error(o.message),
   error_message |-> o.message]

LastOfError(o, ts) ==
  [alive |-> FALSE, last_checked |-> ts,
   error_type |-> categorize_error(o.message), error_message |-> o.message]

RecordHistoryOnly(d, url, rec, lst) ==
  [d EXCEPT !.status_history = Put(@, url, Append(Get(@, url, <<>>), rec))]

\* data.setdefault("status_history", {}).setdefault(url, []).append(rec)
\* data.setdefault("last_status", {})[url] = lst
Record(d, url, rec, lst) ==
  [d EXCEPT !.status_history = Put(@, url, Append(Get(@, url, <<>>), rec)),
            !.last_status    = Put(@, url, lst)]

\* the counters after one attempt: a response counts only when it is ok,
\* an exception counts as one dead and one error of its kind
Count(s, o) ==
  IF o.kind = "response"
  THEN IF ResponseOk(o) THEN [s EXCEPT !.alive = @ + 1] ELSE s
  ELSE [s EXCEPT !.dead = @ + 1,
                 !.errors = Put(@, categorize_error(o.message),
                                Get(@, categorize_error(o.message), 0) + 1)]

RetryAlways(o, a) == a + 1 < Retries

RetryUntilOk(o, a) == ~IsOk(o)

\* the retry loop goes on: no break, and range(3) is not exhausted
Retry(o, a) == ~IsOk(o) /\ a + 1 < Retries

\* time.sleep(2 ** attempt), in the except branch only
SleepsAfter(o, a, url) ==
  IF o.kind = "exception" THEN << [url |-> url, attempt |-> a, delay |-> 2 ^ a] >>
  ELSE << >>

DeadLinksAlive(d) ==
  [u \in {x \in DOMAIN d.last_status : Get(d.last_status[x], "alive", FALSE)}
     |-> d.last_status[u]]

DeadLinksRolledBack(d) ==
  LET ls == IF out.url_write # "ok" THEN loaded.last_status ELSE d.last_status IN
  [u \in {x \in DOMAIN ls : ~Get(ls[x], "alive", FALSE)} |-> ls[u]]

\* {url: last_status[url] for url in last_status if not last_status[url].get("alive", False)}
DeadLinks(d) ==
  [u \in {x \in DOMAIN d.last_status : ~Get(d.last_status[x], "alive", FALSE)}
     |-> d.last_status[u]]

\* What requests.head can give: a response with a status code and the time it
\* took, or an exception with its text.
Answered == [kind |-> "response", status_code |-> 200, elapsed |-> 40]

TimedOut == [kind |-> "exception", message |-> <<"Read", "timeout">>]

HeadOutcomes ==
  { Answered,
    [kind |-> "response",  status_code |-> 404, elapsed |-> 55],
    TimedOut,
    [kind |-> "exception", message |-> <<"Connection", "refused">>] }

IdleLocals ==
  /\ data = EmptyData /\ loaded = EmptyData
  /\ timestamp = 0 /\ summary = EmptySummary
  /\ category = 0 /\ urlIdx = 0 /\ attempt = 0 /\ success = FALSE
  /\ headLog = EmptyMap /\ sleeps = <<>>

ResetLocals ==
  /\ data' = EmptyData /\ loaded' = EmptyData
  /\ timestamp' = 0 /\ summary' = EmptySummary
  /\ category' = 0 /\ urlIdx' = 0 /\ attempt' = 0 /\ success' = FALSE
  /\ headLog' = EmptyMap /\ sleeps' = <<>>

\* lines 132-138: the load fails, the function returns
ValidateLoadError ==
  /\ pc = "menu"
  /\ urlFile.st # "ok"
  /\ out' = [op |-> "validate_urls", result |-> "load_error"]
  /\ last' = [op |-> "validate_urls", loaded |-> FALSE]
  /\ UNCHANGED <<pc, files, locals, ops, nreq>>

\* datetime.now().isoformat(): the local time of the wall clock, which is set
\* back when the clock is corrected, summer time ends or the time zone changes
Clock == {1, 2}

\* lines 132-145: load, timestamp, summary, and the log line that the
\* validation starts
ValidateLoad(ts) ==
  /\ pc = "menu"
  /\ urlFile.st = "ok"
  /\ ops < MaxOps
  /\ data' = urlFile.body
  /\ loaded' = urlFile.body
  /\ ops' = ops + 1
  /\ timestamp' = ts
  /\ summary' = EmptySummary
  /\ category' = 1
  /\ urlIdx' = 1
  /\ attempt' = 0
  /\ success' = FALSE
  /\ headLog' = EmptyMap
  /\ sleeps' = <<>>
  /\ pc' = "v_next"
  /\ out' = [op |-> "validate_urls", result |-> "validating"]
  /\ last' = [op |-> "validate_urls", loaded |-> TRUE]
  /\ UNCHANGED <<files, nreq>>

\* lines 143-148: the two for loops step to the next URL, or end
ValidateNextUrl ==
  /\ pc = "v_next"
  /\ IF urlIdx <= Len(UrlsOf(data, category))
     THEN /\ summary' = [summary EXCEPT !.checked = @ + 1]
          /\ success' = FALSE
          /\ attempt' = 0
          /\ pc' = "v_attempt"
          /\ UNCHANGED <<category, urlIdx>>
     ELSE /\ category' = category + 1
          /\ urlIdx' = 1
          /\ pc' = IF category + 1 > 2 THEN "v_save" ELSE "v_next"
          /\ UNCHANGED <<summary, success, attempt>>
  /\ UNCHANGED <<out, files, data, timestamp, loaded, headLog, sleeps, ops, nreq, last>>

\* lines 149-188: one turn of the retry loop
ValidateAttempt(o) ==
  /\ pc = "v_attempt"
  /\ data' = IF o.kind = "response"
             THEN Record(data, CurrentUrl, StatusOf(o, timestamp), LastOfResponse(o, timestamp))
             ELSE Record(data, CurrentUrl, ErrorLogOf(o, timestamp), LastOfError(o, timestamp))
  /\ summary' = Count(summary, o)
  /\ success' = (success \/ IsOk(o))
  /\ sleeps' = sleeps \o SleepsAfter(o, attempt, CurrentUrl)
  /\ headLog' = Put(headLog, CurrentUrl, Append(Get(headLog, CurrentUrl, <<>>), o))
  /\ nreq' = nreq + 1
  /\ attempt' = attempt + 1
  /\ pc' = IF Retry(o, attempt) THEN "v_attempt" ELSE "v_endurl"
  /\ UNCHANGED <<out, files, timestamp, category, urlIdx, loaded, ops, last>>

\* lines 189-190: after the retry loop
ValidateEndUrl ==
  /\ pc = "v_endurl"
  /\ data' = IF ~success THEN suggest_mirror(CurrentUrl, data) ELSE data
  /\ urlIdx' = urlIdx + 1
  /\ pc' = "v_next"
  /\ UNCHANGED <<out, files, timestamp, summary, category, attempt, success,
                 loaded, headLog, sleeps, ops, nreq, last>>

\* lines 192-197: the enriched config is written back
ValidateSave(how) ==
  /\ pc = "v_save"
  /\ urlFile' = Written(urlFile, data, how)
  /\ out' = [op |-> "validate_urls", result |-> "saving", url_write |-> how]
  /\ pc' = "v_dead"
  /\ UNCHANGED <<deadFile, channelsFile, epgFile, locals, ops, nreq, last>>

\* lines 199-209: the dead links are written
ValidateDeadLinks(how) ==
  /\ pc = "v_dead"
  /\ deadFile' = Written(deadFile, DeadLinks(data), how)
  /\ out' = [out EXCEPT !.result = "saved"] @@ [dead_write |-> how]
  /\ pc' = "v_report"
  /\ UNCHANGED <<urlFile, channelsFile, epgFile, locals, ops, nreq, last>>

\* lines 211-212: the summary is logged and printed, the function returns
ValidateReport ==
  /\ pc = "v_report"
  /\ out' = [op |-> "validate_urls", result |-> "complete",
             alive |-> summary.alive, dead |-> summary.dead]
  /\ pc' = "menu"
  /\ ResetLocals
  /\ UNCHANGED <<files, ops, nreq, last>>

\* option 99 of the menu
Exit ==
  /\ pc = "menu"
  /\ pc' = "exited"
  /\ UNCHANGED <<out, files, locals, ops, nreq, last>>

\* option 10 of the menu: launch_dashboard is bound at line 1349, after the
\* call of menu() at line 1331 has returned, so the menu evaluates an unbound
\* name and the NameError ends the menu loop
LaunchDashboard ==
  /\ pc = "menu"
  /\ pc' = "crashed"
  /\ out' = [op |-> "launch_dashboard", result |-> "fatal"]
  /\ UNCHANGED <<files, locals, ops, nreq, last>>

\* line 1263: input() raises EOFError when the standard input is at its end
EndOfInput ==
  /\ pc = "menu"
  /\ pc' = "crashed"
  /\ out' = [op |-> "input", result |-> "fatal"]
  /\ UNCHANGED <<files, locals, ops, nreq, last>>

-----------------------------------------------------------------------------
(* The URLs and the URL configs a run starts from. *)

UrlMirror == <<"https://", "iptv-org.github.io", "/iptv/index.m3u">>
UrlPlain  == <<"http://", "tv.example.org", "/list.m3u">>
UrlEpg    == <<"https://", "epg.pw", "/xmltv/epg.xml">>
UrlBoth   == <<"https://", "epg.pw", "/proxy/", "iptv-org.github.io", "/guide.xml">>

Config(pl, epg) == [EmptyData EXCEPT !.playlist_urls = pl, !.epg_urls = epg]

\* the dict of a pass at time ts in which the three attempts of url raised o:
\* three records, the last_status of the third, and the suggestion
FailedThrice(d, url, o, ts) ==
  LET rec(x) == Record(x, url, ErrorLogOf(o, ts), LastOfError(o, ts)) IN
  suggest_mirror(url, rec(rec(rec(d))))

\* the config an earlier pass over UrlPlain and UrlEpg wrote when the
\* connection was refused at every attempt; the playlist URL was taken off
\* the list and a guide URL added to it since
EnrichedConfig ==
  LET refused == [kind |-> "exception", message |-> <<"Connection", "refused">>]
      first   == FailedThrice(Config(<<UrlPlain>>, <<UrlEpg>>), UrlPlain, refused, 0)
  IN [FailedThrice(first, UrlEpg, refused, 0)
        EXCEPT !.playlist_urls = <<>>, !.epg_urls = <<UrlEpg, UrlBoth>>]

InitUrlFiles ==
  { MissingFile,
    File(Config(<<UrlPlain>>, <<UrlEpg>>)),
    File(EnrichedConfig) }

Init ==
  /\ pc = "menu"
  /\ out = [op |-> "start"]
  /\ urlFile \in InitUrlFiles
  /\ deadFile = MissingFile
  /\ channelsFile = MissingFile
  /\ epgFile = MissingFile
  /\ IdleLocals
  /\ ops = 0
  /\ nreq = 0
  /\ last = [op |-> "none", loaded |-> FALSE]


-----------------------------------------------------------------------------
(* SECTION 5.1 of the source: extract_m3u_metadata. *)

\* build a dict from a key and a value; dicts are joined with @@
Dict(k, v) == k :> v

Min(S) == CHOOSE x \in S : \A y \in S : x <= y

Quote == "\""

\* re.search(open + '(.*?)"', info): from the first occurrence of the opening
\* token that has a closing quote after it, up to the nearest closing quote;
\* "" when there is none
AttrValue(info, open) ==
  LET starts == {i \in 1..Len(info) :
                   info[i] = open /\ \E j \in (i + 1)..Len(info) : info[j] = Quote}
  IN IF starts = {} THEN <<>>
     ELSE LET i == Min(starts)
              j == Min({k \in (i + 1)..Len(info) : info[k] = Quote})
          IN SubSeq(info, i + 1, j - 1)

\* lines[i].startswith("#EXTINF")
IsExtInf(line) == Len(line) >= 1 /\ line[1] = "#EXTINF"

\* lines 245-262: the channel dict of the header lines[i]
ChannelOf(lines, i, url) ==
  Dict("TVG-ID", AttrValue(lines[i], "tvg-id=\""))
    @@ Dict("TVG-NAME", AttrValue(lines[i], "tvg-name=\""))
    @@ Dict("TVG-LOGO", AttrValue(lines[i], "tvg-logo=\""))
    @@ Dict("TVG-GROUP", AttrValue(lines[i], "group-title=\""))
    @@ Dict("TVG-URL", IF i + 1 <= Len(lines) THEN lines[i + 1] ELSE <<>>)
    @@ Dict("TVG-LANGUAGE", <<"Unknown">>)
    @@ Dict("source_url", url)

\* lines 243-266: the channels of one playlist text, appended to channels
RECURSIVE ParseLines(_, _, _, _)
ParseLines(lines, i, url, channels) ==
  IF i > Len(lines) THEN channels
  ELSE IF IsExtInf(lines[i])
            /\ (Truthy(ChannelOf(lines, i, url)["TVG-NAME"])
                  \/ Truthy(ChannelOf(lines, i, url)["TVG-ID"]))
       THEN ParseLines(lines, i + 1, url, Append(channels, ChannelOf(lines, i, url)))
       ELSE ParseLines(lines, i + 1, url, channels)

RECURSIVE M3uChannelsAbort(_, _, _, _)
M3uChannelsAbort(urls, k, fetch, channels) ==
  IF k > Len(urls) THEN channels
  ELSE IF fetch[urls[k]].ok
       THEN M3uChannelsAbort(urls, k + 1, fetch,
                             ParseLines(fetch[urls[k]].lines, 1, urls[k], channels))
       ELSE channels

\* lines 237-269: all playlist URLs in order; a URL whose fetch raises is skipped
RECURSIVE M3uChannels(_, _, _, _)
M3uChannels(urls, k, fetch, channels) ==
  IF k > Len(urls) THEN channels
  ELSE IF fetch[urls[k]].ok
       THEN M3uChannels(urls, k + 1, fetch,
                        ParseLines(fetch[urls[k]].lines, 1, urls[k], channels))
       ELSE M3uChannels(urls, k + 1, fetch, channels)

ExtractM3U(fetch, how) ==
  /\ pc = "menu"
  /\ ops < MaxOps
  /\ ops' = ops + 1
  /\ IF urlFile.st # "ok"
     THEN /\ out' = [op |-> "extract_m3u_metadata", result |-> "load_error"]
          /\ last' = [op |-> "extract_m3u_metadata", loaded |-> FALSE]
          /\ UNCHANGED channelsFile
     ELSE \E channels \in {M3uChannels(urlFile.body.playlist_urls, 1, fetch, <<>>)} :
          /\ channelsFile' = Written(channelsFile, channels, how)
          /\ out' = [op |-> "extract_m3u_metadata", result |-> "complete",
                     count |-> Len(channels), write |-> how]
          /\ last' = [op |-> "extract_m3u_metadata", loaded |-> TRUE,
                      fetch |-> fetch, result |-> channels, write |-> how]
  /\ UNCHANGED <<pc, urlFile, deadFile, epgFile, locals, nreq>>

-----------------------------------------------------------------------------
(* SECTION 5.2 of the source: extract_epg_metadata. *)

\* channel.findtext("display-name"): the text of the first such child, "" if
\* it has none, None if there is no such child
FindText(el, tag) ==
  LET idx == {i \in 1..Len(el.children) : el.children[i].tag = tag} IN
  IF idx = {} THEN None
  ELSE IF el.children[Min(idx)].text = None THEN <<>>
       ELSE el.children[Min(idx)].text

\* lines 326-332
EpgEntry(tvg_id, tvg_epgid, url) ==
  Dict("TVG-ID", tvg_id) @@ Dict("TVG-EPGID", tvg_epgid) @@ Dict("TVG-EPGURL", url)
    @@ Dict("type", <<"EPG">>) @@ Dict("language", <<"unknown">>)

RECURSIVE EpgEntriesAll(_, _, _, _)
EpgEntriesAll(root, i, url, entries) ==
  IF i > Len(root) THEN entries
  ELSE IF root[i].tag = "channel"
       THEN EpgEntriesAll(root, i + 1, url,
              Append(entries, EpgEntry(Get(root[i].attrs, "id", None),
                                       FindText(root[i], "display-name"), url)))
       ELSE EpgEntriesAll(root, i + 1, url, entries)

\* lines 317-334: the entries of the <channel> children of the root
RECURSIVE EpgEntries(_, _, _, _)
EpgEntries(root, i, url, entries) ==
  IF i > Len(root) THEN entries
  ELSE IF root[i].tag = "channel"
            /\ (Truthy(Get(root[i].attrs, "id", None))
                  \/ Truthy(FindText(root[i], "display-name")))
       THEN EpgEntries(root, i + 1, url,
              Append(entries, EpgEntry(Get(root[i].attrs, "id", None),
                                       FindText(root[i], "display-name"), url)))
       ELSE EpgEntries(root, i + 1, url, entries)

\* d[key] = value on a dict that keeps the order of insertion: a list of items
DictSet(d, key, value) ==
  IF \E i \in 1..Len(d) : d[i].key = key
  THEN [i \in 1..Len(d) |-> IF d[i].key = key THEN [key |-> key, value |-> value] ELSE d[i]]
  ELSE Append(d, [key |-> key, value |-> value])

RECURSIVE EpgDataEmptyGroup(_, _, _, _)
EpgDataEmptyGroup(urls, k, fetch, epg_data) ==
  IF k > Len(urls) THEN epg_data
  ELSE IF fetch[urls[k]].ok
       THEN EpgDataEmptyGroup(urls, k + 1, fetch,
              DictSet(epg_data, urls[k], EpgEntries(fetch[urls[k]].root, 1, urls[k], <<>>)))
       ELSE EpgDataEmptyGroup(urls, k + 1, fetch, DictSet(epg_data, urls[k], <<>>))

\* lines 308-340: all guide URLs in order; a URL whose fetch or parse raises
\* gets no key
RECURSIVE EpgData(_, _, _, _)
EpgData(urls, k, fetch, epg_data) ==
  IF k > Len(urls) THEN epg_data
  ELSE IF fetch[urls[k]].ok
       THEN EpgData(urls, k + 1, fetch,
              DictSet(epg_data, urls[k], EpgEntries(fetch[urls[k]].root, 1, urls[k], <<>>)))
       ELSE EpgData(urls, k + 1, fetch, epg_data)

ExtractEPG(fetch, how) ==
  /\ pc = "menu"
  /\ ops < MaxOps
  /\ ops' = ops + 1
  /\ IF urlFile.st # "ok"
     THEN /\ out' = [op |-> "extract_epg_metadata", result |-> "load_error"]
          /\ last' = [op |-> "extract_epg_metadata", loaded |-> FALSE]
          /\ UNCHANGED epgFile
     ELSE \E epg_data \in {EpgData(urlFile.body.epg_urls, 1, fetch, <<>>)} :
          /\ epgFile' = Written(epgFile, epg_data, how)
          /\ out' = [op |-> "extract_epg_metadata", result |-> "complete",
                     count |-> Len(epg_data), write |-> how]
          /\ last' = [op |-> "extract_epg_metadata", loaded |-> TRUE,
                      fetch |-> fetch, result |-> epg_data, write |-> how]
  /\ UNCHANGED <<pc, urlFile, deadFile, channelsFile, locals, nreq>>

-----------------------------------------------------------------------------
(* SECTION 5.3 of the source: smart_match, fuzzy_match_channel_name and      *)
(* match_channels_to_epg.                                                    *)

\* what a call gives: a value, or an exception that leaves the function
Return(v)  == [raised |-> FALSE, value |-> v]
Raise(exc) == [raised |-> TRUE, exc |-> exc]

\* lines 431-434: for entries in epg_grouped.values(): epg_entries.extend(entries)
RECURSIVE Flatten(_, _)
Flatten(epg_grouped, i) ==
  IF i > Len(epg_grouped) THEN <<>>
  ELSE epg_grouped[i].value \o Flatten(epg_grouped, i + 1)

\* line 473: the display names of the entries that have one
RECURSIVE EpgNames(_, _)
EpgNames(entries, i) ==
  IF i > Len(entries) THEN <<>>
  ELSE IF Truthy(Get(entries[i], "TVG-EPGID", None))
       THEN <<Get(entries[i], "TVG-EPGID", <<>>)>> \o EpgNames(entries, i + 1)
       ELSE EpgNames(entries, i + 1)

\* Line 474 evaluates the name difflib.  The module binds get_close_matches
\* only (line 49, from difflib import get_close_matches) and never difflib, so
\* the call raises NameError, whatever the name and the entries are.
fuzzy_match_channel_name(channel_name, epg_entries) ==
  LET epg_names == EpgNames(epg_entries, 1) IN Raise("NameError")

SkipsNone(name) == FALSE

\* lines 438-440: if not name: continue
Skips(name) == ~Truthy(name)

\* lines 436-444: the loop over the channels, until it ends or a call raises.
\* st.calls lists the calls of the matcher, st.assigned the channels whose
\* matched_epg_id was assigned.
RECURSIVE MatchFrom(_, _, _)
MatchFrom(i, st, epg_entries) ==
  IF i > Len(st.channels) THEN st
  ELSE LET name == Get(st.channels[i], "TVG-NAME", None) IN
       IF Skips(name) THEN MatchFrom(i + 1, st, epg_entries)
       ELSE LET r  == fuzzy_match_channel_name(name, epg_entries)
                s1 == [st EXCEPT !.calls = Append(@, [channel |-> i, name |-> name,
                                                     pool |-> EpgNames(epg_entries, 1),
                                                     result |-> r])]
            IN IF r.raised THEN [s1 EXCEPT !.raised = TRUE]
               ELSE IF Truthy(r.value)
                    THEN MatchFrom(i + 1,
                           [s1 EXCEPT !.channels[i] = Put(@, "matched_epg_id", r.value),
                                      !.matched = @ + 1,
                                      !.assigned = Append(@, i)],
                           epg_entries)
                    ELSE MatchFrom(i + 1, s1, epg_entries)

MatchLoop(channels, epg_grouped) ==
  MatchFrom(1, [channels |-> channels, matched |-> 0, calls |-> <<>>,
                assigned |-> <<>>, raised |-> FALSE],
            Flatten(epg_grouped, 1))

\* smart_match (lines 421-453) and match_channels_to_epg (lines 499-531) are
\* the same code.  An exception of the matcher is caught nowhere in them nor
\* in menu(): it ends the menu loop.
Reconcile(op, how) ==
  /\ pc = "menu"
  /\ ops < MaxOps
  /\ ops' = ops + 1
  /\ IF channelsFile.st # "ok" \/ epgFile.st # "ok"
     THEN /\ out' = [op |-> op, result |-> "load_error"]
          /\ last' = [op |-> op, loaded |-> FALSE]
          /\ UNCHANGED <<pc, channelsFile>>
     ELSE LET st == MatchLoop(channelsFile.body, epgFile.body) IN
          /\ last' = [op |-> op, loaded |-> TRUE, channels_in |-> channelsFile.body,
                      epg_in |-> epgFile.body, calls |-> st.calls,
                      assigned |-> st.assigned, raised |-> st.raised,
                      matched |-> st.matched, result |-> st.channels,
                      write |-> IF st.raised THEN "none" ELSE how]
          /\ IF st.raised
             THEN /\ pc' = "crashed"
                  /\ out' = [op |-> op, result |-> "fatal"]
                  /\ UNCHANGED channelsFile
             ELSE /\ pc' = pc
                  /\ out' = IF how = "ok"
                            THEN [op |-> op, result |-> "complete", matched |-> st.matched]
                            ELSE [op |-> op, result |-> "save_error"]
                  /\ channelsFile' = Written(channelsFile, st.channels, how)
  /\ UNCHANGED <<urlFile, deadFile, epgFile, locals, nreq>>

SmartMatch(how) == Reconcile("smart_match", how)

MatchChannelsToEpg(how) == Reconcile("match_channels_to_epg", how)

-----------------------------------------------------------------------------
(* SECTION 5.2.2 of the source: audit_epg_metadata. *)

EmptyAudit ==
  [seen_ids |-> {}, duplicates |-> <<>>, null_entries |-> <<>>, empty_sources |-> <<>>]

\* lines 385-394: the entries of one source
RECURSIVE AuditEntries(_, _, _, _)
AuditEntries(entries, i, source, st) ==
  IF i > Len(entries) THEN st
  ELSE LET tvg_id    == Get(entries[i], "TVG-ID", None)
           tvg_epgid == Get(entries[i], "TVG-EPGID", None)
       IN IF ~Truthy(tvg_id) /\ ~Truthy(tvg_epgid)
          THEN AuditEntries(entries, i + 1, source,
                 [st EXCEPT !.null_entries = Append(@, <<source, entries[i]>>)])
          ELSE IF tvg_id \in st.seen_ids
               THEN AuditEntries(entries, i + 1, source,
                      [st EXCEPT !.duplicates = Append(@, <<source, tvg_id>>)])
               ELSE AuditEntries(entries, i + 1, source,
                      [st EXCEPT !.seen_ids = @ \cup {tvg_id}])

RECURSIVE AuditFromResetting(_, _, _)
AuditFromResetting(epg_data, k, st) ==
  IF k > Len(epg_data) THEN st
  ELSE IF epg_data[k].value = <<>>
       THEN AuditFromResetting(epg_data, k + 1,
                               [st EXCEPT !.empty_sources = Append(@, epg_data[k].key)])
       ELSE AuditFromResetting(epg_data, k + 1,
              AuditEntries(epg_data[k].value, 1, epg_data[k].key,
                           [st EXCEPT !.seen_ids = {}]))

\* lines 380-394: the sources in the order of the dict
RECURSIVE AuditFrom(_, _, _)
AuditFrom(epg_data, k, st) ==
  IF k > Len(epg_data) THEN st
  ELSE IF epg_data[k].value = <<>>
       THEN AuditFrom(epg_data, k + 1,
                      [st EXCEPT !.empty_sources = Append(@, epg_data[k].key)])
       ELSE AuditFrom(epg_data, k + 1,
                      AuditEntries(epg_data[k].value, 1, epg_data[k].key, st))

\* audit_epg_metadata reads the guide store and prints four counts
Audit ==
  /\ pc = "menu"
  /\ ops < MaxOps
  /\ ops' = ops + 1
  /\ IF epgFile.st # "ok"
     THEN /\ out' = [op |-> "audit_epg_metadata", result |-> "load_error"]
          /\ last' = [op |-> "audit_epg_metadata", loaded |-> FALSE]
     ELSE LET st == AuditFrom(epgFile.body, 1, EmptyAudit) IN
          /\ out' = [op |-> "audit_epg_metadata", result |-> "complete",
                     sources |-> Len(epgFile.body), empty |-> Len(st.empty_sources),
                     nulls |-> Len(st.null_entries), duplicates |-> Len(st.duplicates)]
          /\ last' = [op |-> "audit_epg_metadata", loaded |-> TRUE,
                      epg_in |-> epgFile.body, audit |-> st]
  /\ UNCHANGED <<pc, files, locals, nreq>>

-----------------------------------------------------------------------------
(* SECTION 5.7 of the source: deduplicate_channels. *)

KeepsUnseen(tvg_id, seen) == Truthy(tvg_id)

\* line 915: if tvg_id and tvg_id not in seen
Keeps(tvg_id, seen) == Truthy(tvg_id) /\ tvg_id \notin seen

\* lines 911-917
RECURSIVE DedupFrom(_, _, _, _)
DedupFrom(channels, i, seen, unique) ==
  IF i > Len(channels) THEN unique
  ELSE IF Keeps(Get(channels[i], "TVG-ID", None), seen)
       THEN DedupFrom(channels, i + 1, seen \cup {Get(channels[i], "TVG-ID", None)},
                      Append(unique, channels[i]))
       ELSE DedupFrom(channels, i + 1, seen, unique)

DeduplicateTruncating(how) ==
  /\ pc = "menu"
  /\ ops < MaxOps
  /\ ops' = ops + 1
  /\ LET channels == IF channelsFile.st # "ok" THEN <<>> ELSE channelsFile.body
         unique   == DedupFrom(channels, 1, {}, <<>>)
     IN /\ channelsFile' = Written(channelsFile, unique, how)
        /\ out' = [op |-> "deduplicate_channels",
                   result |-> IF channelsFile.st # "ok" THEN "load_error" ELSE "complete"]
        /\ last' = [op |-> "deduplicate_channels", loaded |-> channelsFile.st = "ok",
                    channels_in |-> channels, result |-> unique, write |-> how]
  /\ UNCHANGED <<pc, urlFile, deadFile, epgFile, locals, nreq>>

Deduplicate(how) ==
  /\ pc = "menu"
  /\ ops < MaxOps
  /\ ops' = ops + 1
  /\ IF channelsFile.st # "ok"
     THEN /\ out' = [op |-> "deduplicate_channels", result |-> "load_error"]
          /\ last' = [op |-> "deduplicate_channels", loaded |-> FALSE]
          /\ UNCHANGED channelsFile
     ELSE LET unique == DedupFrom(channelsFile.body, 1, {}, <<>>) IN
          /\ channelsFile' = Written(channelsFile, unique, how)
          /\ out' = IF how = "ok"
                    THEN [op |-> "deduplicate_channels", result |-> "complete",
                          count |-> Len(unique)]
                    ELSE [op |-> "deduplicate_channels", result |-> "save_error"]
          /\ last' = [op |-> "deduplicate_channels", loaded |-> TRUE,
                      channels_in |-> channelsFile.body, result |-> unique,
                      write |-> how]
  /\ UNCHANGED <<pc, urlFile, deadFile, epgFile, locals, nreq>>

-----------------------------------------------------------------------------
(* What the playlist and guide URLs serve. *)

BBCOne    == <<"B", "B", "C", " ", "O", "n", "e">>
BBCOneDot == BBCOne \o <<".">>
BBCOneHD  == BBCOne \o <<" ", "H", "D">>
ITV       == <<"I", "T", "V">>

ExtInf(tvg_id, tvg_name) ==
  <<"#EXTINF", ":-1 ", "tvg-id=\"">> \o tvg_id \o <<Quote, " ", "tvg-name=\"">>
    \o tvg_name \o <<Quote, " ", "tvg-logo=\"", "x.png", Quote, " ",
                     "group-title=\"", "UK", Quote, ",", "title">>

ExtInfNameOnly(tvg_name) ==
  <<"#EXTINF", ":-1 ", "tvg-name=\"">> \o tvg_name \o <<Quote, ",", "title">>

ExtInfBare == <<"#EXTINF", ":-1,", "Radio">>

PlaylistA ==
  << <<"#EXTM3U">>,
     ExtInf(<<"bbc1">>, BBCOne),   <<"http://cdn/", "bbc1.m3u8">>,
     ExtInf(<<"bbc1">>, BBCOneHD), <<"http://cdn/", "bbc1hd.m3u8">>,
     ExtInfNameOnly(ITV),          <<"http://cdn/", "itv.m3u8">> >>

PlaylistB ==
  << ExtInfBare, <<"http://cdn/", "radio.mp3">>,
     ExtInf(<<"itv1">>, <<>>),
     ExtInf(<<"bbc1">>, BBCOne) >>

FetchFailed == [ok |-> FALSE]

M3uFetches == {FetchFailed, [ok |-> TRUE, lines |-> PlaylistA], [ok |-> TRUE, lines |-> PlaylistB]}

Element(tag, attrs, children) == [tag |-> tag, attrs |-> attrs, children |-> children]

DisplayName(text) == [tag |-> "display-name", text |-> text]

GuideA ==
  << Element("channel", Dict("id", <<"bbc1">>), <<DisplayName(BBCOne)>>),
     Element("channel", EmptyMap, <<>>),
     Element("programme", Dict("channel", <<"bbc1">>), <<>>) >>

GuideB ==
  << Element("channel", EmptyMap, <<DisplayName(BBCOneDot)>>),
     Element("channel", Dict("id", <<"itv1">>), <<>>),
     Element("channel", Dict("id", <<>>), <<DisplayName(None)>>) >>

EpgFetches ==
  {FetchFailed, [ok |-> TRUE, root |-> GuideA], [ok |-> TRUE, root |-> GuideB],
   [ok |-> TRUE, root |-> <<>>]}

-----------------------------------------------------------------------------
(* src/iptv_gui.py: IPTVApp, the window of the GUI.  It works on the same    *)
(* three files as the command-line tool.  GuiSpec is the GUI by itself, on a *)
(* directory whose stores the command-line tool or an earlier run of the GUI *)
(* has written; its slots run one at a time in the event loop.               *)
(* validate_urls, extract_m3u and extract_epg have no try around their       *)
(* open() calls: an exception of the load or of the write leaves the slot    *)
(* and ends the process.                                                     *)

\* lines 120 and 124-126: the record of one HEAD request
GuiStatus(o, ts) ==
  IF o.kind = "response"
  THEN [timestamp |-> ts, status_code |-> o.status_code, ok |-> ResponseOk(o)]
  ELSE [timestamp |-> ts, error |-> o.message]

\* lines 116-127: one request for each URL of the two lists in order, its
\* record appended to the history of the URL
RECURSIVE GuiValidated(_, _, _, _, _)
GuiValidated(d, urls, k, heads, ts) ==
  IF k > Len(urls) THEN d
  ELSE GuiValidated(
         [d EXCEPT !.status_history =
            Put(@, urls[k], Append(Get(@, urls[k], <<>>), GuiStatus(heads[k], ts)))],
         urls, k + 1, heads, ts)

\* lines 111-129
GuiValidateUrls(heads, ts, how) ==
  /\ pc = "gui"
  /\ ops < MaxOps
  /\ ops' = ops + 1
  /\ IF urlFile.st # "ok"
     THEN /\ pc' = "crashed"
          /\ out' = [op |-> "IPTVApp.validate_urls", result |-> "fatal"]
          /\ last' = [op |-> "IPTVApp.validate_urls", loaded |-> FALSE,
                      before |-> <<urlFile, channelsFile, epgFile>>]
          /\ UNCHANGED <<urlFile, nreq>>
     ELSE LET urls == urlFile.body.playlist_urls \o urlFile.body.epg_urls
              data_ == GuiValidated(urlFile.body, urls, 1, heads, ts)
          IN /\ nreq' = nreq + Len(urls)
             /\ pc' = IF how = "ok" THEN pc ELSE "crashed"
             /\ urlFile' = Written(urlFile, data_, how)
             /\ out' = [op |-> "IPTVApp.validate_urls",
                        result |-> IF how = "ok" THEN "complete" ELSE "fatal"]
             /\ last' = [op |-> "IPTVApp.validate_urls", loaded |-> TRUE,
                         before |-> <<urlFile, channelsFile, epgFile>>,
                         heads |-> heads, result |-> data_, write |-> how]
  /\ UNCHANGED <<deadFile, channelsFile, epgFile, locals>>

\* the first position of info from position from on that holds tok, 0 if none
FirstAt(info, tok, from) ==
  LET idx == {i \in from..Len(info) : info[i] = tok} IN
  IF from = 0 \/ idx = {} THEN 0 ELSE Min(idx)

\* line 144: re.search(r'tvg-id="(.*?)".*?tvg-name="(.*?)".*?tvg-logo="(.*?)"
\* .*?group-title="(.*?)"', info): the four attributes in this order, each
\* value up to the nearest closing quote; None when one of them is missing
GuiMatch(info) ==
  LET next(tok, from) == IF from = 0 THEN 0 ELSE FirstAt(info, tok, from + 1)
      i1 == FirstAt(info, "tvg-id=\"", 1)
      q1 == next(Quote, i1)
      i2 == next("tvg-name=\"", q1)
      q2 == next(Quote, i2)
      i3 == next("tvg-logo=\"", q2)
      q3 == next(Quote, i3)
      i4 == next("group-title=\"", q3)
      q4 == next(Quote, i4)
  IN IF q4 = 0 THEN None
     ELSE << SubSeq(info, i1 + 1, q1 - 1), SubSeq(info, i2 + 1, q2 - 1),
             SubSeq(info, i3 + 1, q3 - 1), SubSeq(info, i4 + 1, q4 - 1) >>

\* lines 140-154: the channels of one playlist text, appended to channels
RECURSIVE GuiParseLines(_, _, _, _)
GuiParseLines(lines, i, url, channels) ==
  IF i > Len(lines) THEN channels
  ELSE IF IsExtInf(lines[i]) /\ GuiMatch(lines[i]) # None
       THEN LET match == GuiMatch(lines[i]) IN
            GuiParseLines(lines, i + 1, url,
              Append(channels,
                Dict("TVG-ID", match[1]) @@ Dict("TVG-NAME", match[2])
                  @@ Dict("TVG-LOGO", match[3]) @@ Dict("TVG-GROUP", match[4])
                  @@ Dict("TVG-URL", IF i + 1 <= Len(lines) THEN lines[i + 1] ELSE <<>>)
                  @@ Dict("TVG-LANGUAGE", <<"Unknown">>)
                  @@ Dict("source_url", url)))
       ELSE GuiParseLines(lines, i + 1, url, channels)

\* lines 135-157: all playlist URLs in order; a URL whose fetch raises adds
\* nothing
RECURSIVE GuiM3uChannels(_, _, _, _)
GuiM3uChannels(urls, k, fetch, channels) ==
  IF k > Len(urls) THEN channels
  ELSE IF fetch[urls[k]].ok
       THEN GuiM3uChannels(urls, k + 1, fetch,
                           GuiParseLines(fetch[urls[k]].lines, 1, urls[k], channels))
       ELSE GuiM3uChannels(urls, k + 1, fetch, channels)

\* lines 131-162
GuiExtractM3U(fetch, how) ==
  /\ pc = "gui"
  /\ ops < MaxOps
  /\ ops' = ops + 1
  /\ IF urlFile.st # "ok"
     THEN /\ pc' = "crashed"
          /\ out' = [op |-> "IPTVApp.extract_m3u", result |-> "fatal"]
          /\ last' = [op |-> "IPTVApp.extract_m3u", loaded |-> FALSE,
                      before |-> <<urlFile, channelsFile, epgFile>>]
          /\ UNCHANGED channelsFile
     ELSE LET channels == GuiM3uChannels(urlFile.body.playlist_urls, 1, fetch, <<>>) IN
          /\ pc' = IF how = "ok" THEN pc ELSE "crashed"
          /\ channelsFile' = Written(channelsFile, channels, how)
          /\ out' = [op |-> "IPTVApp.extract_m3u",
                     result |-> IF how = "ok" THEN "complete" ELSE "fatal"]
          /\ last' = [op |-> "IPTVApp.extract_m3u", loaded |-> TRUE,
                      before |-> <<urlFile, channelsFile, epgFile>>,
                      fetch |-> fetch, result |-> channels, write |-> how]
  /\ UNCHANGED <<urlFile, deadFile, epgFile, locals, nreq>>

\* lines 173-180: one entry for every <channel> element, appended to the one
\* list of the run
RECURSIVE GuiEpgEntries(_, _, _, _)
GuiEpgEntries(root, i, url, epg_data) ==
  IF i > Len(root) THEN epg_data
  ELSE IF root[i].tag = "channel"
       THEN GuiEpgEntries(root, i + 1, url,
              Append(epg_data, EpgEntry(Get(root[i].attrs, "id", None),
                                        FindText(root[i], "display-name"), url)))
       ELSE GuiEpgEntries(root, i + 1, url, epg_data)

\* lines 168-183: epg_data is a list; a URL whose fetch or parse raises adds
\* nothing to it
RECURSIVE GuiEpgData(_, _, _, _)
GuiEpgData(urls, k, fetch, epg_data) ==
  IF k > Len(urls) THEN epg_data
  ELSE IF fetch[urls[k]].ok
       THEN GuiEpgData(urls, k + 1, fetch,
                       GuiEpgEntries(fetch[urls[k]].root, 1, urls[k], epg_data))
       ELSE GuiEpgData(urls, k + 1, fetch, epg_data)

\* lines 164-185
GuiExtractEPG(fetch, how) ==
  /\ pc = "gui"
  /\ ops < MaxOps
  /\ ops' = ops + 1
  /\ IF urlFile.st # "ok"
     THEN /\ pc' = "crashed"
          /\ out' = [op |-> "IPTVApp.extract_epg", result |-> "fatal"]
          /\ last' = [op |-> "IPTVApp.extract_epg", loaded |-> FALSE,
                      before |-> <<urlFile, channelsFile, epgFile>>]
          /\ UNCHANGED epgFile
     ELSE LET epg_data == GuiEpgData(urlFile.body.epg_urls, 1, fetch, <<>>) IN
          /\ pc' = IF how = "ok" THEN pc ELSE "crashed"
          /\ epgFile' = Written(epgFile, epg_data, how)
          /\ out' = [op |-> "IPTVApp.extract_epg",
                     result |-> IF how = "ok" THEN "complete" ELSE "fatal"]
          /\ last' = [op |-> "IPTVApp.extract_epg", loaded |-> TRUE,
                      before |-> <<urlFile, channelsFile, epgFile>>,
                      fetch |-> fetch, result |-> epg_data, write |-> how]
  /\ UNCHANGED <<urlFile, deadFile, channelsFile, locals, nreq>>

\* lines 192-195: csv.DictWriter(f, fieldnames=channels[0].keys()) raises
\* IndexError on an empty list, and writerows raises ValueError on a row that
\* has a key the first row has not
Exportable(channels) ==
  /\ channels # <<>>
  /\ \A i \in 1..Len(channels) : DOMAIN channels[i] \subseteq DOMAIN channels[1]

\* lines 187-203: the channel store is read and channels_export.csv and
\* channels_export.html are written; every exception is caught and reported,
\* those of the two writes (how) included
GuiExportData(how) ==
  /\ pc = "gui"
  /\ ops < MaxOps
  /\ ops' = ops + 1
  /\ out' = [op |-> "IPTVApp.export_data",
             result |-> IF /\ channelsFile.st = "ok"
                           /\ Exportable(channelsFile.body)
                           /\ how = "ok"
                        THEN "complete" ELSE "failed"]
  /\ last' = [op |-> "IPTVApp.export_data", loaded |-> channelsFile.st = "ok",
              before |-> <<urlFile, channelsFile, epgFile>>]
  /\ UNCHANGED <<pc, files, locals, nreq>>

\* the length of the common run of a from i and of b from j
RECURSIVE RunLen(_, _, _, _, _, _)
RunLen(a, i, ahi, b, j, bhi) ==
  IF i > ahi \/ j > bhi THEN 0
  ELSE IF a[i] # b[j] THEN 0
       ELSE 1 + RunLen(a, i + 1, ahi, b, j + 1, bhi)

\* SequenceMatcher.find_longest_match on a[alo..ahi], b[blo..bhi]: the longest
\* common run, the one starting earliest in a, then earliest in b
LongestMatch(a, alo, ahi, b, blo, bhi) ==
  LET pairs  == (alo..ahi) \X (blo..bhi)
      len(p) == RunLen(a, p[1], ahi, b, p[2], bhi)
      best   == CHOOSE p \in pairs : \A q \in pairs :
                  \/ len(p) > len(q)
                  \/ len(p) = len(q) /\ p[1] < q[1]
                  \/ len(p) = len(q) /\ p[1] = q[1] /\ p[2] <= q[2]
  IN [i |-> best[1], j |-> best[2], k |-> len(best)]

\* the number of matched characters of SequenceMatcher.get_matching_blocks
RECURSIVE MatchedChars(_, _, _, _, _, _)
MatchedChars(a, alo, ahi, b, blo, bhi) ==
  IF alo > ahi \/ blo > bhi THEN 0
  ELSE LET m == LongestMatch(a, alo, ahi, b, blo, bhi) IN
       IF m.k = 0 THEN 0
       ELSE m.k + MatchedChars(a, alo, m.i - 1, b, blo, m.j - 1)
                + MatchedChars(a, m.i + m.k, ahi, b, m.j + m.k, bhi)

\* SequenceMatcher(a = candidate, b = name).ratio() as the fraction num / den
Score(candidate, name) ==
  [num |-> 2 * MatchedChars(candidate, 1, Len(candidate), name, 1, Len(name)),
   den |-> Len(candidate) + Len(name)]

\* the characters of the names, in the order of their code points
Characters == <<" ", ".", "B", "C", "D", "H", "I", "O", "T", "V", "d", "e", "l", "n">>

Ord(c) == CHOOSE i \in 1..Len(Characters) : Characters[i] = c

\* a < b for two str
RECURSIVE StrLess(_, _)
StrLess(a, b) ==
  IF b = <<>> THEN FALSE
  ELSE IF a = <<>> THEN TRUE
       ELSE IF Head(a) = Head(b) THEN StrLess(Tail(a), Tail(b))
            ELSE Ord(Head(a)) < Ord(Head(b))

\* difflib.get_close_matches(word, possibilities, n=1, cutoff=0.8): of the
\* possibilities whose ratio is 0.8 at least, the one with the largest
\* (ratio, possibility); [] when there is none
GetCloseMatches(word, possibilities) ==
  LET close == {x \in Range(possibilities) :
                  5 * Score(x, word).num >= 4 * Score(x, word).den}
      better(x, y) ==
        \/ Score(x, word).num * Score(y, word).den > Score(y, word).num * Score(x, word).den
        \/ /\ Score(x, word).num * Score(y, word).den = Score(y, word).num * Score(x, word).den
           /\ (x = y \/ StrLess(y, x))
  IN IF close = {} THEN <<>>
     ELSE << CHOOSE x \in close : \A y \in close : better(x, y) >>

\* the guide store holds a dict with a key: "for e in epg" gives its keys,
\* which are str and have no get
GuideIsDict(epg) == \E i \in 1..Len(epg) : DOMAIN epg[i] = {"key", "value"}

\* line 212
GuiEpgNames(epg) ==
  LET named == SelectSeq(epg, LAMBDA e : Truthy(Get(e, "TVG-EPGID", <<>>))) IN
  [i \in 1..Len(named) |-> named[i]["TVG-EPGID"]]

\* lines 213-217
GuiMatched(channels, epg_names) ==
  [i \in 1..Len(channels) |->
     LET match == GetCloseMatches(Get(channels[i], "TVG-NAME", <<>>), epg_names) IN
     IF match # <<>> THEN Put(channels[i], "matched_epg_id", match[1]) ELSE channels[i]]

\* lines 205-224: every exception is caught.  The loop raises when the guide
\* store is a dict with a key (AttributeError) and when a TVG-NAME is null
\* (TypeError of get_close_matches); nothing is written then.
GuiSmartMatch(how) ==
  /\ pc = "gui"
  /\ ops < MaxOps
  /\ ops' = ops + 1
  /\ IF \/ channelsFile.st # "ok" \/ epgFile.st # "ok"
        \/ GuideIsDict(epgFile.body)
        \/ \E i \in 1..Len(channelsFile.body) :
             Get(channelsFile.body[i], "TVG-NAME", <<>>) = None
     THEN /\ out' = [op |-> "IPTVApp.smart_match", result |-> "failed"]
          /\ last' = [op |-> "IPTVApp.smart_match", loaded |-> FALSE,
                      before |-> <<urlFile, channelsFile, epgFile>>]
          /\ UNCHANGED channelsFile
     ELSE LET channels == GuiMatched(channelsFile.body, GuiEpgNames(epgFile.body)) IN
          /\ channelsFile' = Written(channelsFile, channels, how)
          /\ out' = [op |-> "IPTVApp.smart_match",
                     result |-> IF how = "ok" THEN "complete" ELSE "failed"]
          /\ last' = [op |-> "IPTVApp.smart_match", loaded |-> TRUE,
                      before |-> <<urlFile, channelsFile, epgFile>>,
                      result |-> channels, write |-> how]
  /\ UNCHANGED <<pc, urlFile, deadFile, epgFile, locals, nreq>>

-----------------------------------------------------------------------------
(* The stores a run starts from, and the runs of the extraction pipeline and *)
(* of the GUI.  The stores are files that outlive a run: a run starts from   *)
(* what an earlier run of the tool or of the GUI left in them.               *)

PipelineConfig == Config(<<UrlMirror, UrlPlain>>, <<UrlEpg, UrlBoth>>)

\* a playlist none of whose headers has a name
PlaylistRadio ==
  << <<"#EXTM3U">>,
     ExtInf(<<"radio1">>, <<>>), <<"http://cdn/", "radio1.mp3">>,
     ExtInf(<<"radio2">>, <<>>), <<"http://cdn/", "radio2.mp3">> >>

\* The channel store an earlier run left: unreadable after a write that
\* raised after open(), or as the code wrote it last:
\* extract_m3u_metadata from PlaylistRadio, or IPTVApp.smart_match on what
\* IPTVApp.extract_m3u stored from PlaylistA and IPTVApp.extract_epg from
\* GuideA.
InitChannelFiles ==
  { CorruptFile,
    File(ParseLines(PlaylistRadio, 1, UrlPlain, <<>>)),
    File(GuiMatched(GuiParseLines(PlaylistA, 1, UrlMirror, <<>>),
                    GuiEpgNames(GuiEpgEntries(GuideA, 1, UrlEpg, <<>>)))) }

\* The guide store an earlier run left: unreadable, or as
\* extract_epg_metadata wrote it last.
InitEpgFiles ==
  { CorruptFile,
    File(<< [key |-> UrlEpg,
             value |-> << EpgEntry(<<"bbc1">>, BBCOne, UrlEpg),
                          EpgEntry(None, BBCOneDot, UrlEpg) >>] >>),
    File(<< [key |-> UrlEpg,
             value |-> << EpgEntry(<<"bbc1">>, BBCOne, UrlEpg) >>],
            [key |-> UrlPlain, value |-> <<>>],
            [key |-> UrlBoth,
             value |-> << EpgEntry(<<"itv1">>, None, UrlBoth),
                          EpgEntry(<<"bbc1">>, BBCOneHD, UrlBoth) >>] >>) }

\* The two stores at the start of a run: both absent, or as earlier runs
\* left them.
InitStores == {<<MissingFile, MissingFile>>} \cup (InitChannelFiles \X InitEpgFiles)

PipelineInit ==
  /\ pc = "menu"
  /\ out = [op |-> "start"]
  /\ urlFile \in {MissingFile, CorruptFile, File(PipelineConfig)}
  /\ deadFile = MissingFile
  /\ \E stores \in InitStores : channelsFile = stores[1] /\ epgFile = stores[2]
  /\ IdleLocals
  /\ ops = 0
  /\ nreq = 0
  /\ last = [op |-> "none", loaded |-> FALSE]

PlaylistUrls == IF urlFile.st = "ok" THEN Range(urlFile.body.playlist_urls) ELSE {}

GuideUrls == IF urlFile.st = "ok" THEN Range(urlFile.body.epg_urls) ELSE {}

\* option 5 of the menu, generate_html_report: lines 554-560 return when the
\* channel store cannot be loaded; otherwise the f-string of lines 596-736
\* evaluates the name c (line 643), which is bound nowhere, and the NameError
\* ends the menu loop
GenerateHtmlReport ==
  /\ pc = "menu"
  /\ ops < MaxOps
  /\ ops' = ops + 1
  /\ IF channelsFile.st # "ok"
     THEN /\ pc' = pc
          /\ out' = [op |-> "generate_html_report", result |-> "load_error"]
     ELSE /\ pc' = "crashed"
          /\ out' = [op |-> "generate_html_report", result |-> "fatal"]
  /\ UNCHANGED <<files, locals, nreq, last>>

\* what requests.head gives next in a run
OpenHeadOutcomes == IF nreq < MaxRequests THEN HeadOutcomes ELSE {TimedOut}

\* The menu loop, lines 1241-1323: one option at a time.  The options 6, 9
\* and 11 to 16 write none of the four files and are not steps.  Spec is
\* about validation: in its runs a GET of an extraction serves PlaylistA or
\* GuideA or fails, and the operations on the stores write without error.
Next ==
  \/ ValidateLoadError
  \/ nreq < MaxRequests /\ \E ts \in Clock : ValidateLoad(ts)
  \/ ValidateNextUrl
  \/ \E o \in OpenHeadOutcomes : ValidateAttempt(o)
  \/ ValidateEndUrl
  \/ \E how \in WriteHows : ValidateSave(how)
  \/ \E how \in WriteHows : ValidateDeadLinks(how)
  \/ ValidateReport
  \/ \E fetch \in [PlaylistUrls -> {FetchFailed, [ok |-> TRUE, lines |-> PlaylistA]}] :
       ExtractM3U(fetch, "ok")
  \/ \E fetch \in [GuideUrls -> {FetchFailed, [ok |-> TRUE, root |-> GuideA]}] :
       ExtractEPG(fetch, "ok")
  \/ SmartMatch("ok")
  \/ MatchChannelsToEpg("ok")
  \/ GenerateHtmlReport
  \/ Audit
  \/ Deduplicate("ok")
  \/ LaunchDashboard
  \/ EndOfInput
  \/ Exit

Spec == Init /\ [][Next]_vars

\* the steps inside a validation pass
PassNext ==
  \/ ValidateNextUrl
  \/ \E o \in OpenHeadOutcomes : ValidateAttempt(o)
  \/ ValidateEndUrl
  \/ \E how \in WriteHows : ValidateSave(how)
  \/ \E how \in WriteHows : ValidateDeadLinks(how)
  \/ ValidateReport

\* Every statement of a pass that has begun is executed in the end:
\* requests.head returns or raises within its timeout of 10 seconds (line
\* 152), time.sleep returns, and the writes return or raise.
FairInit ==
  /\ Init
  /\ urlFile \in {MissingFile, File(Config(<<UrlPlain>>, <<UrlEpg>>))}

FairSpec == FairInit /\ [][Next]_vars /\ WF_vars(PassNext)

\* The same menu loop on stores that earlier runs left.  PipelineSpec is
\* about the stores: in its runs every HEAD request of a validation pass is
\* answered with status 200, and the pass writes its two files without error.
PipelineNext ==
  \/ ValidateLoadError
  \/ ValidateLoad(1)
  \/ ValidateNextUrl
  \/ ValidateAttempt(Answered)
  \/ ValidateEndUrl
  \/ ValidateSave("ok")
  \/ ValidateDeadLinks("ok")
  \/ ValidateReport
  \/ \E fetch \in [PlaylistUrls -> M3uFetches], how \in WriteHows : ExtractM3U(fetch, how)
  \/ \E fetch \in [GuideUrls -> EpgFetches], how \in WriteHows : ExtractEPG(fetch, how)
  \/ \E how \in WriteHows : SmartMatch(how)
  \/ \E how \in WriteHows : MatchChannelsToEpg(how)
  \/ GenerateHtmlReport
  \/ Audit
  \/ \E how \in WriteHows : Deduplicate(how)
  \/ LaunchDashboard
  \/ EndOfInput
  \/ Exit

PipelineSpec == PipelineInit /\ [][PipelineNext]_vars

GuiInit ==
  /\ pc = "gui"
  /\ out = [op |-> "start"]
  /\ urlFile \in {MissingFile, CorruptFile, File(PipelineConfig)}
  /\ deadFile = MissingFile
  /\ \E stores \in InitStores : channelsFile = stores[1] /\ epgFile = stores[2]
  /\ IdleLocals
  /\ ops = 0
  /\ nreq = 0
  /\ last = [op |-> "none", loaded |-> FALSE]

\* the URLs of the two lists of the URL config, in the order of line 116
GuiUrls ==
  IF urlFile.st = "ok" THEN urlFile.body.playlist_urls \o urlFile.body.epg_urls ELSE <<>>

\* what requests.head gives the GUI, which keeps neither the time a response
\* took nor the kind of an exception
GuiHeadOutcomes ==
  {o \in HeadOutcomes : o.kind = "response" \/ o.message = <<"Read", "timeout">>}

\* lines 30-34: the five buttons
GuiNext ==
  \/ \E heads \in [1..Len(GuiUrls) -> GuiHeadOutcomes], ts \in Clock, how \in WriteHows :
       /\ \A k \in 1..Len(GuiUrls) : nreq + k > MaxRequests => heads[k] = TimedOut
       /\ GuiValidateUrls(heads, ts, how)
  \/ \E fetch \in [PlaylistUrls -> M3uFetches], how \in WriteHows : GuiExtractM3U(fetch, how)
  \/ \E fetch \in [GuideUrls -> EpgFetches], how \in WriteHows : GuiExtractEPG(fetch, how)
  \/ \E how \in WriteHows : GuiExportData(how)
  \/ \E how \in WriteHows : GuiSmartMatch(how)

GuiSpec == GuiInit /\ [][GuiNext]_vars

-----------------------------------------------------------------------------
(* categorize_error on its own: CategorizeSpec starts from a failure         *)
(* description, str(e), of MaxWords words at most and classifies it.         *)

Words ==
  {"Timeout", "TIMEOUT", "timeout", "DNS", "dns", "Name", "name", "resolution",
   "Connection", "connection", "refused"}

Messages == UNION {[1..n -> Words] : n \in 0..MaxWords}

CategorizeInit ==
  /\ pc = "menu"
  /\ out = [op |-> "start"]
  /\ urlFile = MissingFile
  /\ deadFile = MissingFile
  /\ channelsFile = MissingFile
  /\ epgFile = MissingFile
  /\ IdleLocals
  /\ ops = 0
  /\ nreq = 0
  /\ last \in {[op |-> "failure", e |-> m] : m \in Messages}

Categorize ==
  /\ last.op = "failure"
  /\ last' = [op |-> "categorize_error", e |-> last.e, result |-> categorize_error(last.e)]
  /\ UNCHANGED <<pc, out, files, locals, ops, nreq>>

CategorizeNext == Categorize

CategorizeSpec == CategorizeInit /\ [][CategorizeNext]_vars

-----------------------------------------------------------------------------
(* Properties of the validator, checked under Spec. *)

Listed(d) == Range(d.playlist_urls) \cup Range(d.epg_urls)

Hist(d, u) == Get(d.status_history, u, <<>>)

\* number of StatusRecords this pass has appended to u's history
Appended(u) == Len(Hist(data, u)) - Len(Hist(loaded, u))

Heads(u) == Get(headLog, u, <<>>)

\* the first ok response of u in this pass came on attempt k
FirstOkAt(u, k) ==
  /\ k \in 1..Len(Heads(u))
  /\ IsOk(Heads(u)[k])
  /\ \A j \in 1..(k - 1) : ~IsOk(Heads(u)[j])

\* all three attempts of u were made in this pass and none was ok
AllFailed(u) ==
  /\ Len(Heads(u)) = Retries
  /\ \A j \in 1..Retries : ~IsOk(Heads(u)[j])

HasMirrorKey(u) == \E i \in 1..Len(MIRROR_MAP) : Contains(u, MIRROR_MAP[i].key)

\* both for loops of the pass are over
LoopsDone == pc \in {"v_save", "v_dead", "v_report"}

\* C1: when the loops of a pass are over, a URL whose first ok response came
\* on attempt k (1..3) has had exactly k StatusRecords appended in this pass
\* and its last_status says alive.
C1_SuccessOnAttemptK ==
  LoopsDone =>
    \A u \in Listed(data) : \A k \in 1..Retries :
      FirstOkAt(u, k) =>
        /\ Appended(u) = k
        /\ u \in DOMAIN data.last_status
        /\ data.last_status[u].alive = TRUE

C1_Witness ==
  /\ LoopsDone
  /\ \E u \in Listed(data) :
       /\ FirstOkAt(u, 3)
       /\ Heads(u)[1].kind = "exception"
       /\ Heads(u)[2].kind = "response"
       /\ Appended(u) = 3
       /\ Len(Hist(loaded, u)) > 0

\* C2: when the loops of a pass are over, a URL whose three attempts all
\* failed has had exactly 3 StatusRecords appended, its last_status says not
\* alive, and it has a mirror suggestion iff it contains a MIRROR_MAP key.
C2_AllAttemptsFail ==
  LoopsDone =>
    \A u \in Listed(data) :
      AllFailed(u) =>
        /\ Appended(u) = 3
        /\ u \in DOMAIN data.last_status
        /\ data.last_status[u].alive = FALSE
        /\ (u \in DOMAIN data.mirror_suggestions) <=> HasMirrorKey(u)

C2_Witness ==
  /\ LoopsDone
  /\ \E u, v \in Listed(data) :
       /\ AllFailed(u) /\ HasMirrorKey(u) /\ u \in DOMAIN data.mirror_suggestions
       /\ AllFailed(v) /\ ~HasMirrorKey(v) /\ v \notin DOMAIN data.mirror_suggestions

\* the dead-links mapping dl holds exactly the entries of ls that are not alive
ExactlyTheDead(dl, ls) ==
  \A u \in (DOMAIN dl) \cup (DOMAIN ls) :
    /\ (u \in DOMAIN dl) <=> (u \in DOMAIN ls /\ ls[u].alive = FALSE)
    /\ (u \in DOMAIN dl) => dl[u] = ls[u]

\* C3: at the end of a pass whose dead-links write went through, the dead-links
\* file holds URL u iff last_status[u].alive is false, with last_status[u] as
\* its value; entries of last_status persisted by earlier passes included.
C3_DeadLinksExact ==
  (pc = "v_report" /\ out.dead_write = "ok") =>
    /\ deadFile.st = "ok"
    /\ ExactlyTheDead(deadFile.body, data.last_status)
    /\ (out.url_write = "ok" =>
          ExactlyTheDead(deadFile.body, urlFile.body.last_status))

C3_Witness ==
  /\ pc = "v_report" /\ out.dead_write = "ok"
  /\ \E u \in DOMAIN deadFile.body : u \notin Listed(data)
  /\ \E u \in Listed(data) :
       /\ data.last_status[u].alive = TRUE
       /\ u \notin DOMAIN deadFile.body
       /\ Len(Hist(loaded, u)) > 0

ErrorKinds == {"Timeout", "DNSFailure", "ConnectionError", "UnknownError"}

\* a URL that got no ok response in this pass
NeverSucceeded(u) == \A j \in 1..Len(Heads(u)) : ~IsOk(Heads(u)[j])

\* the failures of kind k among the attempts of the URLs in us
FailuresOfKind(k, us) ==
  {p \in us \X (1..Retries) :
     /\ p[2] <= Len(Heads(p[1]))
     /\ Heads(p[1])[p[2]].kind = "exception"
     /\ categorize_error(Heads(p[1])[p[2]].message) = k}

\* C10: at the end of a pass, the error-kind counts of the summary count only
\* the failures of URLs that never succeeded in the pass: a URL that failed and
\* then succeeded contributes nothing.
C10_ErrorsOnlyOfDeadUrls ==
  pc = "v_report" =>
    \A k \in ErrorKinds :
      Get(summary.errors, k, 0) =
        Cardinality(FailuresOfKind(k, {u \in Listed(data) : NeverSucceeded(u)}))

\* the time.sleep calls of this pass that followed an attempt of u
SleepsOf(u) == {i \in 1..Len(sleeps) : sleeps[i].url = u}

\* C11: every delay of a pass follows a failed attempt with index 0 or 1 of
\* its URL and lasts 2^index seconds; a URL has two delays at most, and none
\* after its third attempt.
C11_DelayOnlyBetweenAttempts ==
  /\ \A i \in 1..Len(sleeps) :
       /\ sleeps[i].attempt \in {0, 1}
       /\ sleeps[i].delay = 2 ^ sleeps[i].attempt
       /\ ~IsOk(Heads(sleeps[i].url)[sleeps[i].attempt + 1])
  /\ \A u \in DOMAIN headLog : Cardinality(SleepsOf(u)) <= 2

\* the StatusRecord that attempt j of this pass appended to u's history
AttemptRecord(u, j) == Hist(data, u)[Len(Hist(loaded, u)) + j]

\* C12: every attempt of a pass that was not an ok response, exception or
\* non-ok status code alike, appended a record with one of the four error
\* kinds, and was followed by a delay if another attempt came after it.
C12_EveryFailureClassified ==
  \A u \in DOMAIN headLog :
    \A j \in 1..Len(Heads(u)) :
      ~IsOk(Heads(u)[j]) =>
        /\ "error_type" \in DOMAIN AttemptRecord(u, j)
        /\ Get(AttemptRecord(u, j), "error_type", "none") \in ErrorKinds
        /\ j < Len(Heads(u)) => \E i \in SleepsOf(u) : sleeps[i].attempt = j - 1

\* the first key of the mirror table, in table order, that url contains
FirstKey(url) == Min({i \in 1..Len(MIRROR_MAP) : Contains(url, MIRROR_MAP[i].key)})

\* C13: when the loops of a pass are over, the suggestion of a URL whose three
\* attempts failed is the URL with the first key it contains replaced by that
\* key's mirror; a failed URL that contains no key has the suggestion entry it
\* had when the pass loaded the config, or none.
C13_FirstMatchSuggestion ==
  LoopsDone =>
    \A u \in Listed(data) :
      AllFailed(u) =>
        IF HasMirrorKey(u)
        THEN Get(data.mirror_suggestions, u, None)
               = Replace(u, MIRROR_MAP[FirstKey(u)].key, MIRROR_MAP[FirstKey(u)].mirror)
        ELSE Get(data.mirror_suggestions, u, None) = Get(loaded.mirror_suggestions, u, None)

\* a validation pass is under way
InPass == pc \in {"v_next", "v_attempt", "v_endurl", "v_save", "v_dead", "v_report"}

\* the last_status entry that goes with a StatusRecord
Derived(rec) ==
  IF "status_code" \in DOMAIN rec
  THEN [alive |-> rec.ok, last_checked |-> rec.timestamp,
        response_time_ms |-> rec.response_time_ms]
  ELSE [alive |-> FALSE, last_checked |-> rec.timestamp,
        error_type |-> rec.error_type, error_message |-> rec.error_message]

LastDerived(d) ==
  \A u \in DOMAIN d.status_history :
    Hist(d, u) # <<>> =>
      /\ u \in DOMAIN d.last_status
      /\ d.last_status[u] = Derived(Hist(d, u)[Len(Hist(d, u))])

\* C14: in every state, in the dict a pass works on and in the URL config on
\* disk, the last_status of a URL with a non-empty history is derived from the
\* last record of that history.
C14_LastStatusFromLastRecord ==
  /\ LastDerived(data)
  /\ urlFile.st = "ok" => LastDerived(urlFile.body)

\* C14: a pass is under way in which a URL got an error record and then a
\* record of an ok response, and its last_status is the one of the response.
C14_Witness ==
  /\ InPass
  /\ \E u \in DOMAIN headLog :
       /\ Len(Heads(u)) >= 2
       /\ Heads(u)[1].kind = "exception"
       /\ IsOk(Heads(u)[Len(Heads(u))])
       /\ data.last_status[u].alive
       /\ "response_time_ms" \in DOMAIN data.last_status[u]
       /\ "error_type" \notin DOMAIN data.last_status[u]

PrefixOf(s, t) == Len(s) <= Len(t) /\ SubSeq(t, 1, Len(s)) = s

\* every history of d1 is a prefix of the history of the same URL in d2
HistoryKept(d1, d2) ==
  \A u \in DOMAIN d1.status_history : PrefixOf(Hist(d1, u), Hist(d2, u))

Chronological(d) ==
  \A u \in DOMAIN d.status_history :
    \A i, j \in 1..Len(Hist(d, u)) :
      i < j => Hist(d, u)[i].timestamp <= Hist(d, u)[j].timestamp

\* C15: no step shortens or rewrites a history, neither in the URL config on
\* disk, which stays readable, nor in the dict a pass works on, which extends
\* what the pass loaded; and the timestamps of every history never decrease
\* along it.
C15_HistoryAppendOnly ==
  /\ [](/\ Chronological(data)
        /\ urlFile.st = "ok" => Chronological(urlFile.body)
        /\ InPass => HistoryKept(loaded, data))
  /\ [][/\ urlFile.st = "ok" => (urlFile'.st = "ok" /\ HistoryKept(urlFile.body, urlFile'.body))
        /\ (InPass /\ InPass') => HistoryKept(data, data')]_vars

\* the write of the enriched URL config failed in this pass
SaveFailed == pc \in {"v_dead", "v_report"} /\ out.url_write # "ok"

\* C17: after the write of the URL config failed, the config on disk is the
\* one the pass loaded (open() raised) or is unreadable (the write raised
\* after open()), the working dict still holds every record and last_status of
\* the pass, the dead links written are exactly the dead of that working dict,
\* and the pass goes on to its summary and to the menu.
C17_SaveErrorKeepsResults ==
  /\ [](SaveFailed =>
          /\ urlFile = IF out.url_write = "failed" THEN File(loaded) ELSE CorruptFile
          /\ \A u \in DOMAIN headLog :
               /\ Appended(u) = Len(Heads(u))
               /\ data.last_status[u] = Derived(AttemptRecord(u, Len(Heads(u))))
          /\ (pc = "v_report" /\ out.dead_write = "ok") =>
               /\ deadFile.st = "ok"
               /\ ExactlyTheDead(deadFile.body, data.last_status))
  /\ [][SaveFailed =>
          /\ pc = "v_dead" => (pc' = "v_report" /\ data' = data /\ summary' = summary)
          /\ pc = "v_report" =>
               /\ pc' = "menu"
               /\ out' = [op |-> "validate_urls", result |-> "complete",
                          alive |-> summary.alive, dead |-> summary.dead]]_vars

\* C17: the URL config could not be written, the dead links could, and they
\* hold a URL that failed in this pass and that the config on disk has no
\* status of.
C17_Witness ==
  /\ SaveFailed
  /\ out.url_write = "failed"
  /\ pc = "v_report"
  /\ out.dead_write = "ok"
  /\ \E u \in DOMAIN headLog :
       /\ AllFailed(u)
       /\ u \in DOMAIN deadFile.body
       /\ u \notin DOMAIN urlFile.body.last_status

\* the URLs of a pass in the order of the two loops
PassOrder == data.playlist_urls \o data.epg_urls

\* the position in PassOrder of the URL the loops are at
PassPosition ==
  IF category = 1 THEN urlIdx
  ELSE IF category = 2 THEN Len(data.playlist_urls) + urlIdx
       ELSE Len(PassOrder) + 1

\* the URLs that have had an attempt are those before the position of the
\* loops, and the one at that position once its retry loop has begun
AttemptedInOrder ==
  DOMAIN headLog =
    {PassOrder[i] : i \in 1..(PassPosition - 1)}
      \cup (IF pc = "v_endurl" \/ (pc = "v_attempt" /\ attempt > 0)
            THEN {CurrentUrl} ELSE {})

\* C27: in a pass, the URLs get their attempts in the order playlist_urls
\* then epg_urls, no URL gets more than 3, every listed URL has had 1 attempt
\* at least when the loops are over, and every pass that has begun reaches the
\* save, the summary and the menu.
C27_PassTerminates ==
  /\ [](InPass =>
          /\ AttemptedInOrder
          /\ \A u \in DOMAIN headLog : Len(Heads(u)) \in 1..Retries
          /\ LoopsDone => DOMAIN headLog = Listed(data))
  /\ (pc = "v_next" /\ category = 1 /\ urlIdx = 1) ~> (pc = "v_save")
  /\ (pc = "v_save") ~> (pc = "menu" /\ out.op = "validate_urls" /\ out.result = "complete")

\* C27: a pass over a playlist URL and a guide URL has given the first its
\* three attempts and is at the second attempt of the second.
C27_Witness ==
  /\ pc = "v_attempt"
  /\ category = 2
  /\ attempt = 1
  /\ Len(data.playlist_urls) = 1
  /\ Len(Heads(data.playlist_urls[1])) = Retries
  /\ Len(Heads(CurrentUrl)) = 1

\* C28: at the end of a pass, checked is the number of URLs listed, dead is
\* the number of listed URLs that did not end the pass alive, and alive plus
\* dead is checked.
C28_SummaryPerUrl ==
  pc = "v_report" =>
    /\ summary.checked = Len(data.playlist_urls) + Len(data.epg_urls)
    /\ summary.dead = Cardinality({u \in Listed(data) : ~data.last_status[u].alive})
    /\ summary.alive + summary.dead = summary.checked

\* C29: after a pass that saved the URL config, every URL with a mirror
\* suggestion in the config has a last_status that is not alive.
C29_NoStaleSuggestion ==
  (pc = "v_report" /\ out.url_write = "ok") =>
    \A u \in DOMAIN urlFile.body.mirror_suggestions :
      /\ u \in DOMAIN urlFile.body.last_status
      /\ ~urlFile.body.last_status[u].alive

-----------------------------------------------------------------------------
(* Properties of the pipeline, checked under PipelineSpec. *)

ReconcileOps == {"smart_match", "match_channels_to_epg"}

\* the last operation was a deduplication that loaded its input
Deduplicated == last.op = "deduplicate_channels" /\ last.loaded

\* the last operation was a reconciliation pass that loaded its inputs
Reconciled == last.op \in ReconcileOps /\ last.loaded

IdOf(ch) == Get(ch, "TVG-ID", None)

NameOf(ch) == Get(ch, "TVG-NAME", None)

\* the threshold of the matcher, in hundredths
Threshold == 85

\* ratio() >= Threshold / 100
Clears(candidate, name) ==
  100 * Score(candidate, name).num >= Threshold * Score(candidate, name).den

\* ratio of c1 >= ratio of c2
ScoresAtLeast(c1, c2, name) ==
  Score(c1, name).num * Score(c2, name).den >= Score(c2, name).num * Score(c1, name).den

\* the positions of the pool whose name clears the threshold
Qualifying(name, pool) == {i \in 1..Len(pool) : Clears(pool[i], name)}

\* the first position of the pool with the best score
FirstBest(name, pool) ==
  Min({i \in 1..Len(pool) : \A j \in 1..Len(pool) : ScoresAtLeast(pool[i], pool[j], name)})

\* s is t with some elements left out, the others in their order
RECURSIVE IsSubsequence(_, _)
IsSubsequence(s, t) ==
  IF s = <<>> THEN TRUE
  ELSE IF t = <<>> THEN FALSE
       ELSE IF Head(s) = Head(t) THEN IsSubsequence(Tail(s), Tail(t))
            ELSE IsSubsequence(s, Tail(t))

\* the first record of channels with this identifier
FirstWithId(channels, id) ==
  channels[Min({i \in 1..Len(channels) : IdOf(channels[i]) = id})]

\* C4: after a deduplication, every record of the input whose identifier is
\* empty or missing is a record of the output.
C4_EmptyIdKept ==
  Deduplicated =>
    \A i \in 1..Len(last.channels_in) :
      ~Truthy(IdOf(last.channels_in[i])) =>
        \E j \in 1..Len(last.result) : last.result[j] = last.channels_in[i]

\* C5: the output of a deduplication is a subsequence of its input, and each
\* non-empty identifier of the input is the identifier of exactly one record of
\* the output, the first record of the input that has it.
C5_FirstOccurrenceKept ==
  Deduplicated =>
    /\ IsSubsequence(last.result, last.channels_in)
    /\ \A i \in 1..Len(last.channels_in) :
         LET id == IdOf(last.channels_in[i]) IN
         Truthy(id) =>
           /\ Cardinality({j \in 1..Len(last.result) : IdOf(last.result[j]) = id}) = 1
           /\ \E j \in 1..Len(last.result) :
                last.result[j] = FirstWithId(last.channels_in, id)
    /\ (last.write = "ok" => channelsFile = File(last.result))

\* C5: a deduplication was given three records or more, two of them with the
\* same non-empty identifier and different names, and wrote an output without
\* the later one.
C5_Witness ==
  /\ Deduplicated
  /\ last.write = "ok"
  /\ Len(last.channels_in) >= 3
  /\ \E i, j \in 1..Len(last.channels_in) :
       /\ i < j
       /\ Truthy(IdOf(last.channels_in[i]))
       /\ IdOf(last.channels_in[i]) = IdOf(last.channels_in[j])
       /\ last.channels_in[i] # last.channels_in[j]
       /\ last.channels_in[i] \in Range(channelsFile.body)
       /\ last.channels_in[j] \notin Range(channelsFile.body)

\* C6: after a reconciliation pass (smart_match or match_channels_to_epg),
\* every record of the channel store that carries matched_epg_id carries the
\* display name of an entry of the guide store this pass read.
C6_AnnotationFromThisSnapshot ==
  (Reconciled /\ channelsFile.st = "ok") =>
    \A i \in 1..Len(channelsFile.body) :
      "matched_epg_id" \in DOMAIN channelsFile.body[i] =>
        \E e \in Range(Flatten(last.epg_in, 1)) :
          Get(e, "TVG-EPGID", None) = channelsFile.body[i]["matched_epg_id"]

\* C7: after a reconciliation pass, a channel that has a name for which no
\* name of the pool of this pass clears the threshold has no matched_epg_id in
\* the channel store, whether it carried one before the pass or not.
C7_NoCandidateNoAnnotation ==
  (Reconciled /\ channelsFile.st = "ok"
     /\ Len(channelsFile.body) = Len(last.channels_in)) =>
    \A i \in 1..Len(last.channels_in) :
      (/\ Truthy(NameOf(last.channels_in[i]))
       /\ Qualifying(NameOf(last.channels_in[i]), EpgNames(Flatten(last.epg_in, 1), 1)) = {})
        => "matched_epg_id" \notin DOMAIN channelsFile.body[i]

\* C8: a call of the matcher returns a value only if a name of the pool clears
\* the threshold, and when one does the call returns the best-scoring name of
\* the pool, the first of them in pool order.
C8_BestFirstReturned ==
  Reconciled =>
    \A c \in Range(last.calls) :
      /\ (~c.result.raised /\ Truthy(c.result.value)) => Qualifying(c.name, c.pool) # {}
      /\ Qualifying(c.name, c.pool) # {} =>
           /\ ~c.result.raised
           /\ c.result.value = c.pool[FirstBest(c.name, c.pool)]

LoadFails(op) ==
  CASE op \in {"validate_urls", "extract_m3u_metadata", "extract_epg_metadata"} ->
         urlFile.st # "ok"
    [] op \in ReconcileOps -> channelsFile.st # "ok" \/ epgFile.st # "ok"
    [] op = "audit_epg_metadata" -> epgFile.st # "ok"
    [] op = "deduplicate_channels" -> channelsFile.st # "ok"
    [] OTHER -> FALSE

\* C16: a step that runs one of the six operations from the menu in a state
\* where loading an input store of that operation fails leaves the four
\* artifacts as they were, reports the load error and is back at the menu.
C16_LoadErrorWritesNothing ==
  [][(pc = "menu" /\ pc' # "exited" /\ LoadFails(out'.op)) =>
       /\ files' = files
       /\ out'.result = "load_error"
       /\ pc' = "menu"]_vars

\* C16: a reconciliation pass found the guide store corrupt while the channel
\* store, which holds records, was readable.
C16_Witness ==
  /\ out = [op |-> "smart_match", result |-> "load_error"]
  /\ pc = "menu"
  /\ epgFile.st = "corrupt"
  /\ channelsFile.st = "ok"
  /\ channelsFile.body # <<>>

\* validation, the two extractions, reconciliation, audit and deduplication
CoreOps ==
  {"validate_urls", "extract_m3u_metadata", "extract_epg_metadata",
   "audit_epg_metadata", "deduplicate_channels"} \cup ReconcileOps

\* C18: no core operation run from the menu ends the process: the menu loop
\* is never left through an exception of one of them.
C18_NoOperationIsFatal == pc = "crashed" => out.op \notin CoreOps

\* the last operation was a playlist extraction that loaded the URL config
Extracted == last.op = "extract_m3u_metadata" /\ last.loaded

\* the stream URL the header lines[i] is to get: the next line unless there is
\* none or it is a header itself
StreamOf(lines, i) ==
  IF i + 1 <= Len(lines) /\ ~IsExtInf(lines[i + 1]) THEN lines[i + 1] ELSE <<>>

\* C19: after a playlist extraction, every record comes from a header line
\* of a fetched playlist, its stream URL is the line after that header if that
\* line is no header, and empty otherwise; no stream URL starts with #EXTINF.
C19_StreamIsNextNonMarkerLine ==
  Extracted =>
    \A r \in Range(last.result) :
      /\ ~IsExtInf(r["TVG-URL"])
      /\ \E u \in DOMAIN last.fetch :
           /\ last.fetch[u].ok
           /\ \E i \in 1..Len(last.fetch[u].lines) :
                /\ IsExtInf(last.fetch[u].lines[i])
                /\ r = [ChannelOf(last.fetch[u].lines, i, u)
                          EXCEPT !["TVG-URL"] = StreamOf(last.fetch[u].lines, i)]

\* the records of one playlist URL alone: none if its fetch failed
RecordsOf(url, fetch) ==
  IF fetch[url].ok THEN ParseLines(fetch[url].lines, 1, url, <<>>) ELSE <<>>

RECURSIVE Concatenated(_, _, _)
Concatenated(urls, k, fetch) ==
  IF k > Len(urls) THEN <<>>
  ELSE RecordsOf(urls[k], fetch) \o Concatenated(urls, k + 1, fetch)

\* C20: the channel list of a playlist extraction is the records of each
\* fetched URL, one URL after the other in the order of the URL list, with
\* nothing for a URL whose fetch failed; it is what a successful write stores.
C20_FailingUrlsContained ==
  Extracted =>
    /\ last.result = Concatenated(urlFile.body.playlist_urls, 1, last.fetch)
    /\ last.write = "ok" => channelsFile = File(last.result)

\* C20: the fetch of the first playlist URL failed, the second URL gave
\* records, and the store written holds the records of the second URL.
C20_Witness ==
  /\ Extracted
  /\ last.write = "ok"
  /\ Len(urlFile.body.playlist_urls) = 2
  /\ ~last.fetch[urlFile.body.playlist_urls[1]].ok
  /\ last.fetch[urlFile.body.playlist_urls[2]].ok
  /\ Len(channelsFile.body) >= 2
  /\ \A r \in Range(channelsFile.body) : r["source_url"] = urlFile.body.playlist_urls[2]

\* the last operation was a guide extraction that loaded the URL config
ExtractedGuide == last.op = "extract_epg_metadata" /\ last.loaded

\* the keys of a dict kept as a list of items
Keys(d) == {d[i].key : i \in 1..Len(d)}

\* d[key]
Value(d, key) == d[CHOOSE i \in 1..Len(d) : d[i].key = key].value

\* a <channel> element with an identifier or a display name
KeptElement(el) ==
  /\ el.tag = "channel"
  /\ Truthy(Get(el.attrs, "id", None)) \/ Truthy(FindText(el, "display-name"))

\* C21: after a guide extraction, the keys of the mapping are the guide URLs
\* whose fetch and parse succeeded, each once; a URL that failed is no key,
\* and a URL whose document has no element to keep is a key with the empty
\* list.  A successful write stores that mapping.
C21_KeysAreTheFetchedUrls ==
  ExtractedGuide =>
    /\ Keys(last.result) = {u \in GuideUrls : last.fetch[u].ok}
    /\ Cardinality(Keys(last.result)) = Len(last.result)
    /\ \A u \in Keys(last.result) :
         SelectSeq(last.fetch[u].root, KeptElement) = <<>> => Value(last.result, u) = <<>>
    /\ last.write = "ok" => epgFile = File(last.result)

\* C21: of two guide URLs one failed and the other gave a document without
\* channel elements; the store written has the second as its only key, with
\* the empty list.
C21_Witness ==
  /\ ExtractedGuide
  /\ last.write = "ok"
  /\ \E u, v \in GuideUrls :
       /\ ~last.fetch[u].ok
       /\ last.fetch[v].ok
       /\ epgFile.body = << [key |-> v, value |-> <<>>] >>

\* C22: after a guide extraction, every entry stored has a non-empty
\* identifier or a non-empty display name, and the entries under a source are
\* those of the <channel> elements of its document that have one of the two,
\* in document order.
C22_EntriesHaveIdOrName ==
  ExtractedGuide =>
    \A u \in Keys(last.result) :
      LET kept    == SelectSeq(last.fetch[u].root, KeptElement)
          entries == Value(last.result, u)
      IN /\ Len(entries) = Len(kept)
         /\ \A j \in 1..Len(entries) :
              /\ Truthy(entries[j]["TVG-ID"]) \/ Truthy(entries[j]["TVG-EPGID"])
              /\ entries[j]["TVG-ID"] = Get(kept[j].attrs, "id", None)
              /\ entries[j]["TVG-EPGID"] = FindText(kept[j], "display-name")
              /\ entries[j]["TVG-EPGURL"] = u

\* C22: a document with three <channel> elements, the last with an empty
\* identifier and an empty display name, was stored as two entries: one with
\* a name only, then one with an identifier only.
C22_Witness ==
  /\ ExtractedGuide
  /\ last.write = "ok"
  /\ \E u \in Keys(epgFile.body) :
       /\ Len(SelectSeq(last.fetch[u].root, LAMBDA el : el.tag = "channel")) = 3
       /\ Len(Value(epgFile.body, u)) = 2
       /\ ~Truthy(Value(epgFile.body, u)[1]["TVG-ID"])
       /\ ~Truthy(Value(epgFile.body, u)[2]["TVG-EPGID"])

\* the last operation was an audit that loaded the guide store
Audited == last.op = "audit_epg_metadata" /\ last.loaded

\* C23: after an audit, the seen set holds non-empty identifiers only, and
\* every duplicate reported is reported for a non-empty identifier.
C23_OnlyNonEmptyIdsSeen ==
  Audited =>
    /\ \A x \in last.audit.seen_ids : Truthy(x)
    /\ \A d \in Range(last.audit.duplicates) : Truthy(d[2])

\* the entry at position i of source k comes after an entry, of the same or
\* of an earlier source, with the same identifier
SeenBefore(epg_data, k, i) ==
  \E k2 \in 1..k : \E i2 \in 1..Len(epg_data[k2].value) :
    /\ k2 < k \/ i2 < i
    /\ Get(epg_data[k2].value[i2], "TVG-ID", None) = Get(epg_data[k].value[i], "TVG-ID", None)

\* C26: after an audit, a non-empty identifier is reported as a duplicate
\* under a source as many times as that source has entries with it that come
\* after an entry with it, in that source or in an earlier one; the sources
\* without entries are the empty sources, in order, and no null entry and no
\* duplicate is reported under them.
C26_DuplicatesAcrossSources ==
  Audited =>
    LET g == last.epg_in
        a == last.audit
    IN /\ \A k \in 1..Len(g) : \A x \in {<<"bbc1">>, <<"itv1">>} :
            Cardinality({j \in 1..Len(a.duplicates) : a.duplicates[j] = <<g[k].key, x>>})
              = Cardinality({i \in 1..Len(g[k].value) :
                               /\ Get(g[k].value[i], "TVG-ID", None) = x
                               /\ SeenBefore(g, k, i)})
       /\ a.empty_sources = [j \in 1..Len(a.empty_sources) |->
                               SelectSeq(g, LAMBDA it : it.value = <<>>)[j].key]
       /\ Len(a.empty_sources) = Len(SelectSeq(g, LAMBDA it : it.value = <<>>))
       /\ \A e \in Range(a.empty_sources) :
            /\ \A d \in Range(a.duplicates) : d[1] # e
            /\ \A n \in Range(a.null_entries) : n[1] # e

\* C26: an audit of three sources, the second without entries, reported the
\* identifier of the first source as a duplicate under the third, and the
\* second source as empty.
C26_Witness ==
  /\ Audited
  /\ Len(last.epg_in) = 3
  /\ last.audit.empty_sources = <<last.epg_in[2].key>>
  /\ last.audit.duplicates = << <<last.epg_in[3].key, <<"bbc1">>>> >>
  /\ <<"bbc1">> \in {Get(e, "TVG-ID", None) : e \in Range(last.epg_in[1].value)}
  /\ out.duplicates = 1
  /\ out.empty = 1

\* the fields of a channel record other than matched_epg_id
OtherFields(ch) == [k \in (DOMAIN ch) \ {"matched_epg_id"} |-> ch[k]]

\* C30: after a reconciliation pass the channel store holds a list of the
\* length and order of the list the pass read, in which every field other than
\* matched_epg_id of every record is as it was, and the guide store is as the
\* pass read it.
C30_OnlyAnnotationChanges ==
  Reconciled =>
    /\ channelsFile.st = "ok"
    /\ Len(channelsFile.body) = Len(last.channels_in)
    /\ \A i \in 1..Len(last.channels_in) :
         OtherFields(channelsFile.body[i]) = OtherFields(last.channels_in[i])
    /\ epgFile = File(last.epg_in)

-----------------------------------------------------------------------------
(* Properties of categorize_error, checked under CategorizeSpec. *)

\* the text has one of the words, in any of its spellings
Mentions(e, spellings) == \E i \in 1..Len(e) : e[i] \in spellings

MentionsNameResolution(e) ==
  \E i \in 1..(Len(e) - 1) : e[i] \in {"Name", "name"} /\ e[i + 1] = "resolution"

\* C24: categorize_error gives Timeout to a text that has "timeout" in any
\* case; else DNSFailure to one that has "dns" or "name resolution"; else
\* ConnectionError to one that has "connection"; else UnknownError.
C24_CategoryByPriority ==
  last.op = "categorize_error" =>
    /\ last.result \in {"Timeout", "DNSFailure", "ConnectionError", "UnknownError"}
    /\ last.result =
         IF Mentions(last.e, {"Timeout", "TIMEOUT", "timeout"}) THEN "Timeout"
         ELSE IF Mentions(last.e, {"DNS", "dns"}) \/ MentionsNameResolution(last.e)
              THEN "DNSFailure"
              ELSE IF Mentions(last.e, {"Connection", "connection"}) THEN "ConnectionError"
                   ELSE "UnknownError"

\* C24: a text with "Connection" before "timeout" was classified as Timeout.
C24_Witness ==
  /\ last.op = "categorize_error"
  /\ last.e = <<"Connection", "DNS", "timeout">>
  /\ last.result = "Timeout"

-----------------------------------------------------------------------------
(* Properties of the GUI, checked under GuiSpec. *)

\* the guide store as the guide extractor of the command-line tool writes it:
\* a dict from source URL to list of entries
IsGuideMapping(body) ==
  \A i \in 1..Len(body) : DOMAIN body[i] = {"key", "value"}

\* C25: an action of the GUI leaves the URL config, the channel store and the
\* guide store as they were, and the guide store, when readable, is a mapping
\* from source URL to list of entries.
C25_GuiOnlyReads ==
  /\ "before" \in DOMAIN last => <<urlFile, channelsFile, epgFile>> = last.before
  /\ epgFile.st = "ok" => IsGuideMapping(epgFile.body)

====
